---------------------------- MODULE Spec2Model ----------------------------
(***************************************************************************)
(* State-machine model of the two scripts of the repository:               *)
(*   Procedure A  src/GetAllTEReposAndCommit/repos_from_te.py              *)
(*   Procedure B  src/GitHubCreateBranches/create_branches_in_projects.py  *)
(* The two scripts are independent programs, so each has a specification   *)
(* of its own (SpecA, SpecB) over the variables of its own script; the     *)
(* other script's variables stay at their initial values.                  *)
(*                                                                         *)
(* The hosting API, git, the filesystem and the console are the            *)
(* environment: every response, exception and typed answer is an input     *)
(* chosen with \E from the sets defined below.                             *)
(***************************************************************************)
EXTENDS Integers, Sequences, FiniteSets, TLC

VARIABLES
    \* ---- Procedure B (create_branches_in_projects.py) ----
    pcB,                  \* position of main(): "select", "name", "base", "confirm", "loop", "exited"
    selected_env_name,    \* main: selected_env_name (NoEnv until chosen)
    new_branch_name,      \* main: new_branch_name
    selected_base_branch, \* main: selected_base_branch
    confirm,              \* main: the answer typed at the confirmation prompt
    repo_idx,             \* main: position of the for loop in selected_repos (1-based, next to process)
    all_successful,       \* main: all_successful
    exit_code,            \* process exit status of Procedure B (NoExit while running)
    invocations,          \* history: the arguments of every create_github_branch call, in call order
    last_call,            \* history: inputs, requests and outcome of the latest create_github_branch call
    n_requests,           \* history: number of API requests issued so far by Procedure B
    n_failed,             \* history: number of create_github_branch calls that returned False
    n_raised,             \* history: number of create_github_branch calls an exception escaped from
    n_ok_refs,            \* history: number of ref-creation POSTs the API answered with 201 or 422
    \* ---- Procedure A (repos_from_te.py) ----
    pcA,                  \* position of main(): "read", "list", "filter", "process", "done", "exited"
    page,                 \* main: page
    repos,                \* main: repos
    filtered_repos,       \* main: filtered_repos
    pr_urls,              \* main: pr_urls
    output_file,          \* lines of created_prs.txt on disk
    proc_idx,             \* main: position of the for loop in filtered_repos
    pages_requested,      \* history: the page numbers requested, in request order
    pages_received,       \* history: the non-empty 200 page bodies received (their PageBody ids), in order
    processed,            \* history: names of the repositories the loop body ran for, in order
    created_prs,          \* history: html_url of every PR the API created (201), in creation order
    last_proc,            \* history: inputs, steps and results of the latest loop body
    prior_file,           \* history: lines created_prs.txt held when the run started
    list_end,             \* history: how the listing loop ended: "", "empty", "status" or "exception"
    n_aborted             \* history: number of loop bodies in which a step or the PR request raised

varsB == <<pcB, selected_env_name, new_branch_name, selected_base_branch, confirm,
           repo_idx, all_successful, exit_code, invocations, last_call,
           n_requests, n_failed, n_raised, n_ok_refs>>

varsA == <<pcA, page, repos, filtered_repos, pr_urls, output_file, proc_idx,
           pages_requested, pages_received, processed, created_prs, last_proc,
           prior_file, list_end, n_aborted>>

vars == <<varsB, varsA>>

-----------------------------------------------------------------------------
(***************************************************************************)
(* Strings whose characters the code inspects (lower(), startswith) are    *)
(* sequences of one-character strings; opaque strings are TLA+ strings.    *)
(***************************************************************************)

\* bound: number of distinct commit hashes the base-ref GET may return
NumHashes == 2

\* response.json()["object"]["sha"] of a 200 answer
Hashes == {<<"sha", i>> : i \in 1..NumHashes}

NoSha == <<>>
NoEnv == "<none>"
NoExit == -1

\* ENVIRONMENTS (insertion order of the dict is the order of env_names)
EnvNames ==
    <<"TaxFree", "Launcher", "TE_PAX", "TE_3CPOS", "TE_Worldline_Samoa",
      "TE_Worldline_Spica", "TE_Ingenico", "TE_VOS", "ESCPOS">>

ENVIRONMENTS ==
    [e \in {EnvNames[i] : i \in DOMAIN EnvNames} |->
        CASE e = "TaxFree" ->
               <<"te-taxfree-android-native", "te-common-android", "te-common-pax",
                 "te-common-utils">>
          [] e = "Launcher" ->
               <<"te-launcher-android-pax", "te-common-android", "te-common-utils">>
          [] e = "TE_PAX" ->
               <<"te-payment-controller-pax", "te-payment-core",
                 "te-payment-screens-resources", "te-payment-screens-unsigned",
                 "te-common-android", "te-common-pax", "te-common-ssl",
                 "te-common-utils">>
          [] e = "TE_3CPOS" ->
               <<"te-payment-3cpos-ui", "te-payment-controller-7816", "te-payment-core",
                 "te-payment-screens-resources", "te-payment-screens-unsigned",
                 "te-common-ssl", "te-common-utils">>
          [] e = "TE_Worldline_Samoa" ->
               <<"te-payment-controller-wl-samoa",
                 "te-payment-controller-wl-samoa-applevas",
                 "te-payment-controller-wl-samoa-jni-logger",
                 "te-payment-controller-wl-samoa-jni-utils",
                 "te-payment-controller-wl-samoa-jtlsserver",
                 "te-payment-controller-wl-samoa-logger",
                 "te-payment-controller-wl-samoa-maps",
                 "te-payment-controller-wl-samoa-printer",
                 "te-payment-core", "te-common-bouncycastle",
                 "te-payment-screens-resources", "te-payment-screens-unsigned",
                 "te-payment-screens-signed">>
          [] e = "TE_Worldline_Spica" ->
               <<"te-payment-controller-wl-spica", "te-payment-controller-wl-samoa",
                 "te-payment-core", "te-common-android", "te-common-ssl",
                 "te-common-utils", "te-common-bouncycastle",
                 "te-payment-screens-resources", "te-payment-screens-unsigned",
                 "te-payment-screens-signed">>
          [] e = "TE_Ingenico" ->
               <<"te-payment-core", "te-payment-core-cpp", "te-payment-controller-tetra",
                 "te-common-cppdk", "te-payment-screens-resources",
                 "te-payment-screens-unsigned">>
          [] e = "TE_VOS" ->
               <<"te-payment-controller-vos", "te-common-cppdk", "te-payment-core-cpp",
                 "te-payment-screens-resources", "te-payment-screens-unsigned">>
          [] e = "ESCPOS" ->
               <<"te-escpos-pax", "te-common-utils", "te-common-pax",
                 "te-common-android">>]

DEFAULT_BASE_BRANCH == "main"

\* main: selected_repos = ENVIRONMENTS[selected_env_name]
selected_repos ==
    IF selected_env_name = NoEnv THEN <<>> ELSE ENVIRONMENTS[selected_env_name]

-----------------------------------------------------------------------------
\* ---- console inputs of Procedure B ----

\* what the operator may type at "Enter your choice": a non-number, or a number
ChoiceInputs ==
    {[isInt |-> FALSE, value |-> 0]} \cup
    {[isInt |-> TRUE, value |-> n] : n \in 0..(Len(EnvNames) + 1)}

BranchNameInputs == {"", "release-42"}

BaseBranchInputs == {"", "develop"}

ConfirmInputs ==
    { <<"y">>, <<"Y","E","S">>, <<"Y","e","s">>,
      <<"n">>, <<"N","o">>, <<>>, <<"y","e">>, <<"y","e","s","s">>, <<"y"," ">> }

\* str.lower() on one character
LowerChar(c) ==
    CASE c = "Y" -> "y"
      [] c = "E" -> "e"
      [] c = "S" -> "s"
      [] c = "N" -> "n"
      [] c = "O" -> "o"
      [] OTHER -> c

\* str.lower()
Lower(s) == [i \in DOMAIN s |-> LowerChar(s[i])]

\* IsAffirmative written as confirm.lower().startswith('y')
IsAffirmative_Prefix(answer) == Lower(answer) # <<>> /\ Lower(answer)[1] = "y"

\* confirm.lower() in ['y', 'yes']
IsAffirmative(answer) == Lower(answer) \in { <<"y">>, <<"y","e","s">> }

-----------------------------------------------------------------------------
\* ---- API outcomes of Procedure B ----

\* a transport-level exception (requests.exceptions.RequestException, no response)
TransportError == [kind |-> "exc", status |-> 0, sha |-> NoSha]

HttpResponse(status, sha) == [kind |-> "http", status |-> status, sha |-> sha]

\* GET /git/ref/heads/<base>: 200 carries the head commit hash; the others carry none
GetErrorStatuses == {404, 500}

GetOutcomes ==
    {TransportError} \cup
    {HttpResponse(s, NoSha) : s \in GetErrorStatuses} \cup
    {HttpResponse(200, h) : h \in Hashes}

\* POST /git/refs
PostStatuses == {201, 422, 200, 500}

PostOutcomes ==
    {TransportError} \cup {HttpResponse(s, NoSha) : s \in PostStatuses}

\* the answer to a request that was not issued
NoOutcome == [kind |-> "none", status |-> 0, sha |-> NoSha]

\* requests.Response.raise_for_status(): raises HTTPError for 4xx and 5xx
RaisesForStatus(status) == status >= 400 /\ status < 600

GetRequest(repo_name, base_branch) ==
    [method |-> "GET", repo |-> repo_name, ref |-> <<"heads", base_branch>>,
     sha |-> NoSha]

\* payload = {"ref": f"refs/heads/{new_branch}", "sha": sha}
PostRequest(repo_name, new_branch, sha) ==
    [method |-> "POST", repo |-> repo_name, ref |-> <<"refs", "heads", new_branch>>,
     sha |-> sha]

Returned(value, requests) == [raised |-> FALSE, value |-> value, requests |-> requests]

Raised(requests) == [raised |-> TRUE, value |-> FALSE, requests |-> requests]

\* CreateRef with the 422 branch lost: "already exists" handled as an error
CreateRef_422Fails(repo_name, new_branch, base_branch, sha, post) ==
    LET reqs == <<GetRequest(repo_name, base_branch),
                  PostRequest(repo_name, new_branch, sha)>>
    IN  IF post.kind = "http" /\ post.status = 201
          THEN Returned(TRUE, reqs)
          ELSE Returned(FALSE, reqs)

\* Step 2 of create_github_branch: the ref-creation POST and its status handling
CreateRef(repo_name, new_branch, base_branch, sha, post) ==
    LET reqs == <<GetRequest(repo_name, base_branch),
                  PostRequest(repo_name, new_branch, sha)>>
    IN  IF post.kind = "exc"
          THEN Returned(FALSE, reqs)        \* except RequestException: return False
        ELSE IF post.status = 201
          THEN Returned(TRUE, reqs)
        ELSE IF post.status = 422
          THEN Returned(TRUE, reqs)
        ELSE \* raise_for_status(): HTTPError -> return False; no raise -> final return False
             Returned(FALSE, reqs)

\* create_github_branch(repo_name, new_branch, base_branch, owner, token);
\* get and post are what the API answers to the two requests
create_github_branch(repo_name, new_branch, base_branch, get, post) ==
    IF get.kind = "exc"
      THEN \* requests.get raised: the handler reads response.status_code while
           \* `response` was never bound: UnboundLocalError leaves the function
           Raised(<<GetRequest(repo_name, base_branch)>>)
    ELSE IF RaisesForStatus(get.status)
      THEN \* HTTPError caught, 404 or not: return False before Step 2
           Returned(FALSE, <<GetRequest(repo_name, base_branch)>>)
    ELSE CreateRef(repo_name, new_branch, base_branch, get.sha, post)

-----------------------------------------------------------------------------
\* ---- Procedure B: main() ----

InitB ==
    /\ pcB = "select"
    /\ selected_env_name = NoEnv
    /\ new_branch_name = ""
    /\ selected_base_branch = ""
    /\ confirm = <<>>
    /\ repo_idx = 1
    /\ all_successful = TRUE
    /\ exit_code = NoExit
    /\ invocations = <<>>
    /\ last_call = [get |-> NoOutcome, post |-> NoOutcome,
                    result |-> Returned(FALSE, <<>>)]
    /\ n_requests = 0
    /\ n_failed = 0
    /\ n_raised = 0
    /\ n_ok_refs = 0

\* the `while not selected_env_name` prompt: one answer of the operator
SelectEnvironment ==
    /\ pcB = "select"
    /\ \E choice \in ChoiceInputs :
         LET choice_index == choice.value - 1
         IN  IF choice.isInt /\ 0 <= choice_index /\ choice_index < Len(EnvNames)
               THEN /\ selected_env_name' = EnvNames[choice_index + 1]
                    /\ pcB' = "name"
               ELSE \* ValueError or out of range: prompt again
                    /\ UNCHANGED selected_env_name
                    /\ pcB' = "select"
    /\ UNCHANGED <<new_branch_name, selected_base_branch, confirm, repo_idx,
                   all_successful, exit_code, invocations, last_call,
                   n_requests, n_failed, n_raised, n_ok_refs>>
    /\ UNCHANGED varsA

\* new_branch_name = input(...); empty -> sys.exit(1)
EnterBranchName ==
    /\ pcB = "name"
    /\ \E typed \in BranchNameInputs :
         /\ new_branch_name' = typed
         /\ IF typed = ""
              THEN pcB' = "exited" /\ exit_code' = 1
              ELSE pcB' = "base" /\ UNCHANGED exit_code
    /\ UNCHANGED <<selected_env_name, selected_base_branch, confirm, repo_idx,
                   all_successful, invocations, last_call,
                   n_requests, n_failed, n_raised, n_ok_refs>>
    /\ UNCHANGED varsA

\* selected_base_branch = input(prompt) or DEFAULT_BASE_BRANCH
EnterBaseBranch ==
    /\ pcB = "base"
    /\ \E typed \in BaseBranchInputs :
         selected_base_branch' = IF typed = "" THEN DEFAULT_BASE_BRANCH ELSE typed
    /\ pcB' = "confirm"
    /\ UNCHANGED <<selected_env_name, new_branch_name, confirm, repo_idx,
                   all_successful, exit_code, invocations, last_call,
                   n_requests, n_failed, n_raised, n_ok_refs>>
    /\ UNCHANGED varsA

\* the confirmation prompt: anything but y / yes (any case) -> sys.exit(0)
Confirm ==
    /\ pcB = "confirm"
    /\ \E typed \in ConfirmInputs :
         /\ confirm' = typed
         /\ IF IsAffirmative(typed)
              THEN pcB' = "loop" /\ UNCHANGED exit_code
              ELSE pcB' = "exited" /\ exit_code' = 0
    /\ UNCHANGED <<selected_env_name, new_branch_name, selected_base_branch, repo_idx,
                   all_successful, invocations, last_call,
                   n_requests, n_failed, n_raised, n_ok_refs>>
    /\ UNCHANGED varsA

\* NextAllSuccessful written as `all_successful = success`: the latest result wins
NextAllSuccessful_Overwrite(all_ok, success) == success

\* if not success: all_successful = False
NextAllSuccessful(all_ok, success) == IF ~success THEN FALSE ELSE all_ok

\* the end of main: falls off the end (status 0) or sys.exit(1)
ExitStatus(all_ok) == IF all_ok THEN 0 ELSE 1

\* one iteration of `for repo in selected_repos`
CreateBranchInRepo ==
    /\ pcB = "loop"
    /\ repo_idx <= Len(selected_repos)
    /\ \E get \in GetOutcomes, post \in PostOutcomes \cup {NoOutcome} :
         LET repo == selected_repos[repo_idx]
             r == create_github_branch(repo, new_branch_name, selected_base_branch,
                                       get, post)
         IN  \* the API answers exactly the requests that were issued
             /\ (post # NoOutcome) <=> (Len(r.requests) = 2)
             /\ invocations' = Append(invocations,
                                      [repo_name |-> repo,
                                       new_branch |-> new_branch_name,
                                       base_branch |-> selected_base_branch])
             /\ last_call' = [get |-> get, post |-> post, result |-> r]
             /\ n_requests' = n_requests + Len(r.requests)
             /\ n_ok_refs' = IF post.kind = "http" /\ post.status \in {201, 422}
                               THEN n_ok_refs + 1 ELSE n_ok_refs
             /\ IF r.raised
                  THEN \* uncaught exception in main: traceback, exit status 1
                       /\ pcB' = "exited"
                       /\ exit_code' = 1
                       /\ n_raised' = n_raised + 1
                       /\ UNCHANGED <<all_successful, repo_idx, n_failed>>
                  ELSE /\ all_successful' = NextAllSuccessful(all_successful, r.value)
                       /\ n_failed' = IF r.value THEN n_failed ELSE n_failed + 1
                       /\ repo_idx' = repo_idx + 1
                       /\ UNCHANGED <<pcB, exit_code, n_raised>>
    /\ UNCHANGED <<selected_env_name, new_branch_name, selected_base_branch, confirm>>
    /\ UNCHANGED varsA

\* after the loop: all_successful -> falls off main (status 0), else sys.exit(1)
FinishB ==
    /\ pcB = "loop"
    /\ repo_idx > Len(selected_repos)
    /\ pcB' = "exited"
    /\ exit_code' = ExitStatus(all_successful)
    /\ UNCHANGED <<selected_env_name, new_branch_name, selected_base_branch, confirm,
                   repo_idx, all_successful, invocations, last_call,
                   n_requests, n_failed, n_raised, n_ok_refs>>
    /\ UNCHANGED varsA

NextB ==
    \/ SelectEnvironment
    \/ EnterBranchName
    \/ EnterBaseBranch
    \/ Confirm
    \/ CreateBranchInRepo
    \/ FinishB


-----------------------------------------------------------------------------
\* ---- Procedure A: configuration and inputs ----

\* bound: number of non-empty pages the organisation listing may have
MaxPages == 2

branch_name == "add-cherrypick-workflow"

NoBranch == "<None>"
NoUrl == "<None>"

\* the literals of the filter: startswith("te-") and != "te-payment-test"
Prefix == <<"t", "e", "-">>

Excluded == <<"t", "e", "-", "p", "a", "y", "m", "e", "n", "t", "-", "t", "e", "s", "t">>

\* repository names the API may list
NameTeA == <<"t", "e", "-", "a">>
NameTeB == <<"t", "e", "-", "b">>
NameOps == <<"o", "p", "s">>
NameExcludedPlus == <<"t", "e", "-", "p", "a", "y", "m", "e", "n", "t", "-", "t", "e", "s", "t", "s">>
NameUpper == <<"T", "E", "-", "a">>
NameShort == <<"t", "e">>
NameInner == <<"x", "t", "e", "-">>

RepoEntry(name) == [name |-> name]

\* response.json() of a 200 listing page: the bodies the API may answer with,
\* by identifier (0 is the empty list)
PageBody(id) ==
    CASE id = 0 -> <<>>
      [] id = 1 -> <<RepoEntry(NameOps), RepoEntry(NameTeA)>>
      [] id = 2 -> <<RepoEntry(Excluded), RepoEntry(NameExcludedPlus)>>
      [] id = 3 -> <<RepoEntry(NameUpper), RepoEntry(NameTeB), RepoEntry(NameShort),
                     RepoEntry(NameInner)>>

PageIds == 0..3

ListErrorStatuses == {403, 500}

PageResponses ==
    {[kind |-> "exc", status |-> 0, body |-> 0]} \cup
    {[kind |-> "http", status |-> s, body |-> 0] : s \in ListErrorStatuses} \cup
    {[kind |-> "http", status |-> 200, body |-> id] : id \in PageIds}

\* the steps of create_branch_and_push that can raise, in program order
PublisherSteps ==
    <<"clone", "open", "checkout", "makedirs", "write", "add", "commit", "push">>

FailPoints == {"none"} \cup {PublisherSteps[i] : i \in DOMAIN PublisherSteps}

\* response.json() of a 201 pull-request creation
PrBodies == { [number |-> 101, html_url |-> "https://pr/101"],
              [number |-> 102, html_url |-> "https://pr/102"] }

NoBody == [number |-> 0, html_url |-> NoUrl]

PrErrorStatuses == {422, 500, 200}

PrOutcomes ==
    {[kind |-> "exc", status |-> 0, body |-> NoBody]} \cup
    {[kind |-> "http", status |-> s, body |-> NoBody] : s \in PrErrorStatuses} \cup
    {[kind |-> "http", status |-> 201, body |-> b] : b \in PrBodies}

ReviewerOutcomes ==
    {[kind |-> "exc", status |-> 0]} \cup
    {[kind |-> "http", status |-> s] : s \in {201, 422, 404}}

NoPrOutcome == [kind |-> "none", status |-> 0, body |-> NoBody]
NoReviewerOutcome == [kind |-> "none", status |-> 0]

PriorFiles == { <<>>, <<"https://pr/old">> }

-----------------------------------------------------------------------------
\* ---- Procedure A: functions ----

\* str.startswith
StartsWith(s, p) == Len(s) >= Len(p) /\ SubSeq(s, 1, Len(p)) = p

\* KeepRepo without the exclusion of te-payment-test
KeepRepo_NoExclusion(repo) == StartsWith(repo.name, Prefix)

\* the condition of the list comprehension of Step 3
KeepRepo(repo) == StartsWith(repo.name, Prefix) /\ repo.name # Excluded

\* [repo for repo in repos if ...]
RECURSIVE FilterList(_)
FilterList(rs) ==
    IF rs = <<>> THEN <<>>
    ELSE IF KeepRepo(Head(rs)) THEN <<Head(rs)>> \o FilterList(Tail(rs))
    ELSE FilterList(Tail(rs))

\* index in PublisherSteps of a step name (0 for "none")
StepIndex(step) ==
    IF step = "none" THEN 0
    ELSE CHOOSE i \in DOMAIN PublisherSteps : PublisherSteps[i] = step

\* the steps create_branch_and_push attempts up to position n; clone is skipped
\* when the local directory exists
RECURSIVE StepsUpTo(_, _)
StepsUpTo(n, dir_exists) ==
    IF n = 0 THEN <<>>
    ELSE IF PublisherSteps[n] = "clone" /\ dir_exists THEN StepsUpTo(n - 1, dir_exists)
    ELSE Append(StepsUpTo(n - 1, dir_exists), PublisherSteps[n])

\* create_branch_and_push whose handler returns the branch name all the same
create_branch_and_push_KeepsBranch(dir_exists, fail_at) ==
    IF fail_at = "none"
      THEN [branch |-> branch_name,
            steps |-> StepsUpTo(Len(PublisherSteps), dir_exists)]
      ELSE [branch |-> branch_name, steps |-> StepsUpTo(StepIndex(fail_at), dir_exists)]

\* create_branch_and_push(repo_url, repo_name, workflow_content): fail_at is the
\* step that raises ("none": no step raises)
create_branch_and_push(dir_exists, fail_at) ==
    IF fail_at = "none"
      THEN [branch |-> branch_name,
            steps |-> StepsUpTo(Len(PublisherSteps), dir_exists)]
      ELSE \* except Exception: return None
           [branch |-> NoBranch, steps |-> StepsUpTo(StepIndex(fail_at), dir_exists)]

ReviewerRequest(repo_name, pr_number) ==
    [method |-> "POST", what |-> "requested_reviewers", repo |-> repo_name,
     head |-> NoBranch, number |-> pr_number]

PullRequest(repo_name, head) ==
    [method |-> "POST", what |-> "pulls", repo |-> repo_name,
     head |-> head, number |-> 0]

\* add_reviewers without its try/except: a transport exception leaves it
add_reviewers_NoCatch(repo_name, pr_number, rev) ==
    [raised |-> rev.kind = "exc",
     requests |-> <<[method |-> "POST", what |-> "requested_reviewers",
                     repo |-> repo_name, head |-> NoBranch, number |-> pr_number]>>]

\* add_reviewers(repo_name, pr_number): one request; a non-201 status and an
\* exception (except Exception) are only printed, nothing is raised or returned
add_reviewers(repo_name, pr_number, rev) ==
    [raised |-> FALSE, requests |-> <<ReviewerRequest(repo_name, pr_number)>>]

\* create_pull_request without the `if not branch_name: return None` test
create_pull_request_NoBranchCheck(repo_name, branch, pr, rev) ==
    IF pr.kind = "exc"
      THEN [pr_link |-> NoUrl, requests |-> <<PullRequest(repo_name, branch)>>]
    ELSE IF pr.status = 201
      THEN [pr_link |-> pr.body.html_url,
            requests |-> <<PullRequest(repo_name, branch),
                           ReviewerRequest(repo_name, pr.body.number)>>]
    ELSE [pr_link |-> NoUrl, requests |-> <<PullRequest(repo_name, branch)>>]

\* create_pull_request(repo_name, branch_name); pr and rev are what the API
\* answers to the creation and to the reviewer request
create_pull_request(repo_name, branch, pr, rev) ==
    IF branch = NoBranch
      THEN [pr_link |-> NoUrl, requests |-> <<>>]
    ELSE IF pr.kind = "exc"
      THEN \* except Exception: return None
           [pr_link |-> NoUrl, requests |-> <<PullRequest(repo_name, branch)>>]
    ELSE IF pr.status = 201
      THEN LET added == add_reviewers(repo_name, pr.body.number, rev)
           IN  [pr_link |-> IF added.raised THEN NoUrl ELSE pr.body.html_url,
                requests |-> <<PullRequest(repo_name, branch)>> \o added.requests]
    ELSE [pr_link |-> NoUrl, requests |-> <<PullRequest(repo_name, branch)>>]

\* WrittenFile with open(output_file, "a")
WrittenFile_Append(before, urls) == before \o urls

\* Step 5: open(output_file, "w") and one line per url
WrittenFile(before, urls) == urls

-----------------------------------------------------------------------------
\* ---- Procedure A: main() ----

NoProc ==
    [repo_name |-> <<>>, dir_exists |-> FALSE, fail_at |-> "none", steps |-> <<>>,
     branch |-> NoBranch, pr |-> NoPrOutcome, rev |-> NoReviewerOutcome,
     requests |-> <<>>, pr_url |-> NoUrl]

InitA ==
    /\ pcA = "read"
    /\ page = 1
    /\ repos = <<>>
    /\ filtered_repos = <<>>
    /\ pr_urls = <<>>
    /\ prior_file \in PriorFiles
    /\ output_file = prior_file
    /\ proc_idx = 1
    /\ pages_requested = <<>>
    /\ pages_received = <<>>
    /\ processed = <<>>
    /\ created_prs = <<>>
    /\ last_proc = NoProc
    /\ list_end = ""
    /\ n_aborted = 0

\* the state of the script that is not running
IdleA ==
    /\ pcA = "read" /\ page = 1 /\ repos = <<>> /\ filtered_repos = <<>>
    /\ pr_urls = <<>> /\ prior_file = <<>> /\ output_file = <<>> /\ proc_idx = 1
    /\ pages_requested = <<>> /\ pages_received = <<>> /\ processed = <<>>
    /\ created_prs = <<>> /\ last_proc = NoProc /\ list_end = "" /\ n_aborted = 0

\* read_workflow_file(): exit(1) when the file does not exist
ReadWorkflowFile ==
    /\ pcA = "read"
    /\ \E file_exists \in BOOLEAN :
         pcA' = IF file_exists THEN "list" ELSE "exited"
    /\ UNCHANGED <<page, repos, filtered_repos, pr_urls, output_file, proc_idx,
                   pages_requested, pages_received, processed, created_prs,
                   last_proc, prior_file, list_end, n_aborted>>
    /\ UNCHANGED varsB

\* Accumulate written as `repos = data`: the latest page replaces the list
Accumulate_Replace(acc, data) == data

\* repos.extend(data)
Accumulate(acc, data) == acc \o data

\* one iteration of the `while True` of Step 2
FetchPage ==
    /\ pcA = "list"
    /\ \E response \in PageResponses :
         LET data == PageBody(response.body)
         IN  /\ (response.status = 200 /\ data # <<>>) => page <= MaxPages
             /\ pages_requested' = Append(pages_requested, page)
             /\ IF response.kind = "exc"
                  THEN \* requests.get raised outside any try: main ends with a traceback
                       /\ pcA' = "exited"
                       /\ list_end' = "exception"
                       /\ UNCHANGED <<repos, page, pages_received>>
                ELSE IF response.status # 200
                  THEN /\ pcA' = "filter"
                       /\ list_end' = "status"
                       /\ UNCHANGED <<repos, page, pages_received>>
                ELSE IF data = <<>>
                  THEN /\ pcA' = "filter"
                       /\ list_end' = "empty"
                       /\ UNCHANGED <<repos, page, pages_received>>
                ELSE /\ repos' = Accumulate(repos, data)
                     /\ page' = page + 1
                     /\ pages_received' = Append(pages_received, response.body)
                     /\ UNCHANGED <<pcA, list_end>>
    /\ UNCHANGED <<filtered_repos, pr_urls, output_file, proc_idx, processed,
                   created_prs, last_proc, prior_file, n_aborted>>
    /\ UNCHANGED varsB

\* Step 3
FilterRepos ==
    /\ pcA = "filter"
    /\ filtered_repos' = FilterList(repos)
    /\ pcA' = "process"
    /\ UNCHANGED <<page, repos, pr_urls, output_file, proc_idx, pages_requested,
                   pages_received, processed, created_prs, last_proc, prior_file,
                   list_end, n_aborted>>
    /\ UNCHANGED varsB

\* if pr_url: pr_urls.append(pr_url)
RecordUrl(urls, pr_url) == IF pr_url # NoUrl THEN Append(urls, pr_url) ELSE urls

\* the rest of the loop body once create_branch_and_push has returned pub
ProcessWith(repo_name, dir_exists, fail_at, pub) ==
    \E pr \in PrOutcomes \cup {NoPrOutcome},
       rev \in ReviewerOutcomes \cup {NoReviewerOutcome} :
      LET res == create_pull_request(repo_name, pub.branch, pr, rev)
      IN  \* the API answers exactly the requests that were issued
          /\ (pr # NoPrOutcome) <=> (Len(res.requests) >= 1)
          /\ (rev # NoReviewerOutcome) <=> (Len(res.requests) >= 2)
          /\ pr_urls' = RecordUrl(pr_urls, res.pr_link)
          /\ processed' = Append(processed, repo_name)
          /\ created_prs' = IF pr.kind = "http" /\ pr.status = 201
                              THEN Append(created_prs, pr.body.html_url)
                              ELSE created_prs
          /\ n_aborted' = IF fail_at # "none" \/ pr.kind = "exc"
                             THEN n_aborted + 1 ELSE n_aborted
          /\ last_proc' = [repo_name |-> repo_name, dir_exists |-> dir_exists,
                           fail_at |-> fail_at, steps |-> pub.steps,
                           branch |-> pub.branch, pr |-> pr, rev |-> rev,
                           requests |-> res.requests, pr_url |-> res.pr_link]

\* one iteration of `for repo in filtered_repos` of Step 4
ProcessRepo ==
    /\ pcA = "process"
    /\ proc_idx <= Len(filtered_repos)
    /\ \E dir_exists \in BOOLEAN, fail_at \in FailPoints :
         \* clone can only raise when it runs
         /\ ~(dir_exists /\ fail_at = "clone")
         /\ LET repo_name == filtered_repos[proc_idx].name
                pub == create_branch_and_push(dir_exists, fail_at)
            IN  ProcessWith(repo_name, dir_exists, fail_at, pub)
    /\ proc_idx' = proc_idx + 1
    /\ UNCHANGED <<pcA, page, repos, filtered_repos, output_file, pages_requested,
                   pages_received, prior_file, list_end>>
    /\ UNCHANGED varsB

\* Step 5
WriteOutput ==
    /\ pcA = "process"
    /\ proc_idx > Len(filtered_repos)
    /\ output_file' = WrittenFile(output_file, pr_urls)
    /\ pcA' = "done"
    /\ UNCHANGED <<page, repos, filtered_repos, pr_urls, proc_idx, pages_requested,
                   pages_received, processed, created_prs, last_proc, prior_file,
                   list_end, n_aborted>>
    /\ UNCHANGED varsB

NextA ==
    \/ ReadWorkflowFile
    \/ FetchPage
    \/ FilterRepos
    \/ ProcessRepo
    \/ WriteOutput

-----------------------------------------------------------------------------
\* ---- specifications ----

\* the state of the script that is not running
IdleB ==
    /\ pcB = "select" /\ selected_env_name = NoEnv /\ new_branch_name = ""
    /\ selected_base_branch = "" /\ confirm = <<>> /\ repo_idx = 1
    /\ all_successful = TRUE /\ exit_code = NoExit /\ invocations = <<>>
    /\ last_call = [get |-> NoOutcome, post |-> NoOutcome,
                    result |-> Returned(FALSE, <<>>)]
    /\ n_requests = 0 /\ n_failed = 0 /\ n_raised = 0 /\ n_ok_refs = 0

\* the start of a run of Procedure A
StartA == InitA /\ IdleB

\* the start of a run of Procedure B
StartB == InitB /\ IdleA

\* Procedure A
SpecA == StartA /\ [][NextA]_vars

\* Procedure B
SpecB == StartB /\ [][NextB]_vars


-----------------------------------------------------------------------------
\* ---- properties of Procedure B (checked under SpecB) ----

\* every spelling of y and yes, whatever the case of its letters
YesAnswers ==
    { <<"y">>, <<"Y">> } \cup
    { <<a, b, c>> : a \in {"y", "Y"}, b \in {"e", "E"}, c \in {"s", "S"} }

\* the operator answered the confirmation prompt affirmatively
Confirmed == confirm \in YesAnswers

\* the create_github_branch calls a run over the whole selected environment makes
ExpectedInvocations ==
    [i \in 1..Len(selected_repos) |->
        [repo_name |-> selected_repos[i], new_branch |-> new_branch_name,
         base_branch |-> selected_base_branch]]

\* C1: after confirmation, whatever the two API calls of a repository do
\* (transport exception or any status), no exception escapes
\* create_github_branch, and a finished run has called it exactly once per
\* repository of the selected environment, in catalog order, with the same
\* new-branch and base-branch arguments.
C1_FailureStaysInsideRepository ==
    /\ n_raised = 0
    /\ ~last_call.result.raised
    /\ (pcB = "exited" /\ Confirmed) => invocations = ExpectedInvocations

\* C2: for the latest create_github_branch call: a 404 on the base-ref GET
\* issues no POST; 201 and 422 on the POST count the repository as successful;
\* any other status on either call counts it as failed; a POST is issued only
\* after the GET returned a hash, and carries that hash and refs/heads/<new>.
C2_BranchCreatorStatuses ==
    invocations # <<>> =>
      LET c == last_call
          reqs == c.result.requests
          args == invocations[Len(invocations)]
          failed == ~c.result.raised /\ ~c.result.value /\ ~all_successful
          succeeded == ~c.result.raised /\ c.result.value
      IN  /\ (c.get.kind = "http" /\ c.get.status = 404) =>
                /\ \A i \in DOMAIN reqs : reqs[i].method # "POST"
                /\ c.post = NoOutcome
          /\ (c.post.kind = "http" /\ c.post.status = 422) => succeeded
          /\ (c.post.kind = "http" /\ c.post.status = 201) => succeeded
          /\ (c.get.kind = "http" /\ c.get.status # 200) => failed
          /\ (c.post.kind = "http" /\ c.post.status \notin {201, 422}) => failed
          /\ \A i \in DOMAIN reqs :
                reqs[i].method = "POST" =>
                  /\ i = 2
                  /\ reqs[1] = [method |-> "GET", repo |-> args.repo_name,
                                ref |-> <<"heads", args.base_branch>>, sha |-> NoSha]
                  /\ c.get.kind = "http" /\ c.get.status = 200
                  /\ c.get.sha \in Hashes
                  /\ reqs[i].sha = c.get.sha
                  /\ reqs[i].ref = <<"refs", "heads", args.new_branch>>
                  /\ reqs[i].repo = args.repo_name

\* C2 witness: a ref creation answered 422 after the base hash was resolved,
\* counted as a success
C2_Witness ==
    /\ invocations # <<>>
    /\ last_call.get.kind = "http" /\ last_call.get.status = 200
    /\ last_call.post.kind = "http" /\ last_call.post.status = 422
    /\ last_call.result.value
    /\ Len(last_call.result.requests) = 2

\* a confirmed run that went through the whole selected environment and ended
WholeRunEnded ==
    /\ pcB = "exited"
    /\ Confirmed
    /\ n_raised = 0
    /\ Len(invocations) = Len(selected_repos)

\* C3: a confirmed run over the whole environment exits 1 exactly when
\* create_github_branch returned failure for at least one repository and 0
\* otherwise; when every ref creation answered 201 or 422 it exits 0.
C3_ExitStatus ==
    WholeRunEnded =>
      /\ exit_code \in {0, 1}
      /\ (exit_code = 1) <=> (n_failed >= 1)
      /\ (exit_code = 0) <=> (n_failed = 0)
      /\ (n_ok_refs = Len(selected_repos)) => (exit_code = 0 /\ all_successful)

\* C3 witness: a whole run whose ref creations were all answered 201 or 422,
\* the last one 422, after an earlier 201, ended with status 0
C3_Witness ==
    /\ WholeRunEnded
    /\ n_ok_refs = Len(selected_repos)
    /\ last_call.post.status = 422
    /\ exit_code = 0

\* C4: no API request before the confirmation gate is passed: an empty branch
\* name ends the process with status 1 and no request; an answer other than
\* y / yes (any case) ends it with status 0 and no request; requests exist
\* only after an affirmative answer.
C4_ConfirmationGate ==
    /\ (n_requests > 0 \/ invocations # <<>>) => (Confirmed /\ new_branch_name # "")
    /\ pcB \in {"select", "name", "base", "confirm"} => n_requests = 0
    /\ (pcB = "exited" /\ new_branch_name = "") =>
          (exit_code = 1 /\ n_requests = 0 /\ invocations = <<>>)
    /\ (pcB = "exited" /\ new_branch_name # "" /\ ~Confirmed) =>
          (exit_code = 0 /\ n_requests = 0 /\ invocations = <<>>)

\* C4 witness: the operator declined with "No" and the process ended with
\* status 0 without a request
C4_Witness ==
    /\ pcB = "exited"
    /\ new_branch_name # ""
    /\ confirm = <<"N", "o">>
    /\ exit_code = 0
    /\ n_requests = 0

-----------------------------------------------------------------------------
\* ---- properties of Procedure A (checked under SpecA) ----

\* the concatenation of the page bodies named by ids
RECURSIVE ConcatPages(_)
ConcatPages(ids) ==
    IF ids = <<>> THEN <<>> ELSE PageBody(Head(ids)) \o ConcatPages(Tail(ids))

\* C5: pages are requested in the order 1, 2, 3, ...; the accumulated list is
\* the concatenation, in page order, of the pages received before the first
\* empty or non-200 page; that page ends pagination (no later page is
\* requested), and after a non-200 page the accumulated repositories are what
\* the rest of the run works on.
C5_Pagination ==
    /\ pages_requested = [i \in 1..Len(pages_requested) |-> i]
    /\ \A i \in DOMAIN pages_received : PageBody(pages_received[i]) # <<>>
    /\ repos = ConcatPages(pages_received)
    /\ pcA = "list" =>
          (Len(pages_requested) = Len(pages_received) /\ list_end = "")
    /\ pcA \in {"filter", "process", "done"} =>
          /\ list_end \in {"empty", "status"}
          /\ Len(pages_requested) = Len(pages_received) + 1
    /\ pcA \in {"process", "done"} =>
          \A i \in 1..(proc_idx - 1) :
             \E j \in DOMAIN repos : repos[j].name = processed[i]

\* C5 witness: two pages were accumulated, the third request was answered with
\* a non-200 status, and the run went on to process a repository of them
C5_Witness ==
    /\ list_end = "status"
    /\ pages_received = <<1, 2>>
    /\ pages_requested = <<1, 2, 3>>
    /\ pcA = "process"
    /\ Len(processed) = 2

\* the name starts with t, e, - and is not te-payment-test
C6_Wanted(repo) ==
    /\ Len(repo.name) >= 3
    /\ repo.name[1] = "t" /\ repo.name[2] = "e" /\ repo.name[3] = "-"
    /\ repo.name # <<"t","e","-","p","a","y","m","e","n","t","-","t","e","s","t">>

\* C6: the repositories processed are exactly the subsequence, in listing
\* order, of the accumulated repositories whose name starts with "te-" and is
\* not "te-payment-test"; neither the excluded name nor a name without the
\* prefix is ever processed.
C6_Filtering ==
    pcA \in {"process", "done"} =>
      LET wanted == SelectSeq(repos, C6_Wanted)
      IN  /\ Len(processed) <= Len(wanted)
          /\ \A i \in DOMAIN processed : processed[i] = wanted[i].name
          /\ pcA = "done" => Len(processed) = Len(wanted)
          /\ \A i \in DOMAIN processed : C6_Wanted([name |-> processed[i]])

\* C6 witness: the listing held te-payment-test and te-payment-tests, and the
\* finished run processed te-a and te-payment-tests, in that order
C6_Witness ==
    /\ pcA = "done"
    /\ pages_received = <<1, 2>>
    /\ processed = <<NameTeA, NameExcludedPlus>>

\* C7: for the latest loop body: a PR creation request is issued only if the
\* publisher returned the branch name (every step completed); a reviewer
\* request is issued only after the creation answered 201; on 201 the result
\* is the html_url of the response; on any other answer there is no result and
\* no reviewer request.
C7_PrOpener ==
    processed # <<>> =>
      LET p == last_proc
          isPulls(r) == r.what = "pulls"
          isReviewers(r) == r.what = "requested_reviewers"
      IN  /\ (\E i \in DOMAIN p.requests : isPulls(p.requests[i])) =>
                /\ p.branch = "add-cherrypick-workflow"
                /\ p.fail_at = "none"
                /\ \A n \in {"open", "checkout", "makedirs", "write", "add", "commit",
                             "push"} :
                      \E k \in DOMAIN p.steps : p.steps[k] = n
                /\ p.dir_exists <=> (\A k \in DOMAIN p.steps : p.steps[k] # "clone")
                /\ p.steps[Len(p.steps)] = "push"
                /\ p.requests[1] = [method |-> "POST", what |-> "pulls",
                                    repo |-> p.repo_name,
                                    head |-> "add-cherrypick-workflow", number |-> 0]
          /\ \A i \in DOMAIN p.requests :
                /\ isPulls(p.requests[i]) => i = 1
                /\ isReviewers(p.requests[i]) =>
                      /\ i = 2
                      /\ isPulls(p.requests[1])
                      /\ p.pr.kind = "http" /\ p.pr.status = 201
                      /\ p.requests[i].number = p.pr.body.number
                      /\ p.requests[i].repo = p.repo_name
          /\ (p.pr.kind = "http" /\ p.pr.status = 201) =>
                p.pr_url = p.pr.body.html_url
          /\ ~(p.pr.kind = "http" /\ p.pr.status = 201) =>
                /\ p.pr_url = NoUrl
                /\ \A i \in DOMAIN p.requests : ~isReviewers(p.requests[i])

\* C7 witness: a publication with a fresh clone, a creation answered 201 and a
\* reviewer request, the result being the html_url of the answer
C7_Witness ==
    /\ processed # <<>>
    /\ ~last_proc.dir_exists
    /\ last_proc.steps = PublisherSteps
    /\ last_proc.pr.status = 201
    /\ last_proc.pr.body.html_url = "https://pr/102"
    /\ last_proc.pr_url = "https://pr/102"
    /\ Len(last_proc.requests) = 2

\* C8 as stated: the run appends its URLs, so the lines the file held before
\* the run are still in it afterwards, followed by one line per PR created
\* (201) in this run, in creation order.
C8_AppendsToOutputFile ==
    pcA = "done" => output_file = prior_file \o created_prs

\* C8 as amended: at the end of a run the output file holds exactly one line
\* per PR whose creation returned 201 in this run, in creation order, and
\* nothing else: the file is rewritten, the lines it held before are gone.
C8_RewritesOutputFile ==
    /\ pcA = "done" =>
          /\ output_file = created_prs
          /\ pr_urls = created_prs
          /\ Len(created_prs) <= Len(processed)
    /\ pcA # "done" => output_file = prior_file

\* C8 witness: the file held a line before the run; the run created a PR,
\* failed on another repository, and the file now holds the one new URL
C8_Witness ==
    /\ pcA = "done"
    /\ prior_file = <<"https://pr/old">>
    /\ Len(processed) = 2
    /\ created_prs = <<"https://pr/101">>
    /\ output_file = <<"https://pr/101">>

\* C9: once the PR creation answered 201, whatever the reviewer request does
\* (201, another status, a transport exception), create_pull_request returns
\* the URL of the PR and the URL is in the run's result list.
C9_ReviewerOutcomeIgnored ==
    (processed # <<>> /\ last_proc.pr.kind = "http" /\ last_proc.pr.status = 201) =>
      /\ last_proc.rev \in ReviewerOutcomes
      /\ last_proc.pr_url = last_proc.pr.body.html_url
      /\ pr_urls # <<>>
      /\ pr_urls[Len(pr_urls)] = last_proc.pr.body.html_url
      /\ Len(pr_urls) = Len(created_prs)

\* C9 witness: the reviewer request raised and the URL was recorded all the same
C9_Witness ==
    /\ processed # <<>>
    /\ last_proc.pr.status = 201
    /\ last_proc.rev.kind = "exc"
    /\ pr_urls # <<>>
    /\ pr_urls[Len(pr_urls)] = last_proc.pr.body.html_url

\* C10: an exception at a publisher step or at the PR request ends the work on
\* that repository only: no branch name or no PR URL for it, no later step of
\* it runs; every repository of the filtered list is processed exactly once,
\* in order, whatever happened to the earlier ones, and the run goes on to the
\* result-recording step.
C10_FailureIsolation ==
    /\ pcA \in {"process", "done"} =>
          /\ processed = [i \in 1..(proc_idx - 1) |-> filtered_repos[i].name]
          /\ proc_idx <= Len(filtered_repos) + 1
          /\ n_aborted <= Len(processed)
    /\ pcA = "done" => Len(processed) = Len(filtered_repos)
    /\ (pcA = "process" /\ proc_idx <= Len(filtered_repos)) => ENABLED ProcessRepo
    /\ (pcA = "process" /\ proc_idx > Len(filtered_repos)) => ENABLED WriteOutput
    /\ pcA = "exited" => processed = <<>>
    /\ (processed # <<>> /\ last_proc.fail_at # "none") =>
          /\ last_proc.branch = NoBranch
          /\ last_proc.pr_url = NoUrl
          /\ last_proc.requests = <<>>
          /\ last_proc.steps # <<>>
          /\ last_proc.steps[Len(last_proc.steps)] = last_proc.fail_at
    /\ (processed # <<>> /\ last_proc.pr.kind = "exc") =>
          /\ last_proc.pr_url = NoUrl
          /\ Len(last_proc.requests) = 1

\* C10 witness: the first repository was aborted by an exception, the second
\* one got its PR, and the run reached the end
C10_Witness ==
    /\ pcA = "done"
    /\ Len(processed) = 2
    /\ n_aborted = 1
    /\ last_proc.pr_url # NoUrl
    /\ Len(pr_urls) = 1

=============================================================================
